---- MODULE Spec2Model ----
(***************************************************************************)
(* GeoCycle KE dashboard (src/app.py): a Streamlit script that loads a     *)
(* CSV of dumpsites once, filters it by three multi-selects and a          *)
(* checkbox, and re-renders KPIs, a Folium map, three aggregation panels   *)
(* and a CSV download on every rerun.                                      *)
(*                                                                         *)
(* Values of a DataFrame cell are modelled as tagged records:              *)
(*   [k |-> "str",  s |-> text]   a Python str                             *)
(*   [k |-> "bool", s |-> "True" or "False"]   a Python bool               *)
(*   [k |-> "num",  s |-> integer]  a number (coordinates, in 1e-4 degree) *)
(*   [k |-> "nan",  s |-> ...]    the float NaN pandas stores for a        *)
(*                                missing value                            *)
(* s is always what Python's str() of the value gives.  Columns whose text *)
(* the script inspects character by character (the coordinates as read,    *)
(* Photo URL, _ReasonsNormalized, _InterventionsNormalized) hold their     *)
(* text as a sequence of one-character strings; the other columns hold it  *)
(* as one atomic string.                                                   *)
(***************************************************************************)
EXTENDS Integers, Sequences, FiniteSets, TLC

\* ------------------------------------------------------------------ cells

Str(s)  == [k |-> "str", s |-> s]
NaN     == [k |-> "nan", s |-> "nan"]
NaNText == [k |-> "nan", s |-> <<"n", "a", "n">>]
NaNNum  == [k |-> "nan", s |-> 0]
Num(n)  == [k |-> "num", s |-> n]
PyTrue  == [k |-> "bool", s |-> "True"]
PyFalse == [k |-> "bool", s |-> "False"]

isna(c) == c.k = "nan"

\* ---------------------------------------------------------------- columns

DerivedCols == <<"_WasteCategory", "_Alert", "_ReasonsNormalized", "_InterventionsNormalized">>

\* the columns whose text is kept as a sequence of characters
TextCols ==
  {"Latitude", "Longitude", "Photo URL", "_ReasonsNormalized", "_InterventionsNormalized"}

Range(q) == {q[i] : i \in 1..Len(q)}

\* the subsequence of q at the positions where keep[i] holds
RECURSIVE Take(_, _)
Take(q, keep) ==
  IF q = <<>> THEN <<>>
  ELSE (IF Head(keep) THEN <<Head(q)>> ELSE <<>>) \o Take(Tail(q), Tail(keep))

\* ---------------------------------------------------------------- loading

Digits == {"0", "1", "2", "3", "4", "5", "6", "7", "8", "9"}

DigitVal(ch) ==
  CASE ch = "0" -> 0 [] ch = "1" -> 1 [] ch = "2" -> 2 [] ch = "3" -> 3
    [] ch = "4" -> 4 [] ch = "5" -> 5 [] ch = "6" -> 6 [] ch = "7" -> 7
    [] ch = "8" -> 8 [] ch = "9" -> 9

RECURSIVE DigitsVal(_, _)
DigitsVal(cs, acc) ==
  IF cs = <<>> THEN acc ELSE DigitsVal(Tail(cs), 10 * acc + DigitVal(Head(cs)))

\* the text of a number: an optional minus sign, then one or more digits
IsNumeral(cs) ==
  LET body == IF cs # <<>> /\ Head(cs) = "-" THEN Tail(cs) ELSE cs
  IN  body # <<>> /\ \A i \in 1..Len(body) : body[i] \in Digits

NumeralVal(cs) ==
  IF Head(cs) = "-" THEN 0 - DigitsVal(Tail(cs), 0) ELSE DigitsVal(cs, 0)

\* pd.to_numeric(..., errors="coerce") on one cell as read from the file
to_numeric(c) ==
  IF c.k = "str" /\ IsNumeral(c.s) THEN Num(NumeralVal(c.s)) ELSE NaNNum

\* lines 20-21: False for _Alert, the empty str for the others (written <<>>
\* in the columns that hold their text as characters)
DerivedDefault(c) ==
  IF c = "_Alert" THEN PyFalse
  ELSE IF c = "_WasteCategory" THEN Str("") ELSE Str(<<>>)

\* the loop of lines 20-21: each derived column the file lacks is appended
RECURSIVE AddMissing(_, _)
AddMissing(t, cs) ==
  IF cs = <<>> THEN t
  ELSE LET c == Head(cs)
           t2 == IF c \in Range(t.cols) THEN t
                 ELSE [t EXCEPT !.cols = Append(t.cols, c),
                                !.rows = [i \in 1..Len(t.rows) |->
                                            t.rows[i] @@ (c :> DerivedDefault(c))]]
       IN  AddMissing(t2, Tail(cs))

\* A table is [cols: the column names in order, index: the row labels,
\* rows: one function column -> cell per row].
read_csv(file) ==
  [cols |-> file.cols, index |-> [i \in 1..Len(file.rows) |-> i - 1], rows |-> file.rows]

\* load_csv with dropna(subset=["Latitude"]) only
load_csv_lat_only(file) ==
  LET t0 == read_csv(file)
      coerced == [i \in 1..Len(t0.rows) |->
                    [t0.rows[i] EXCEPT !["Latitude"] = to_numeric(@),
                                       !["Longitude"] = to_numeric(@)]]
      keep == [i \in 1..Len(coerced) |-> ~isna(coerced[i]["Latitude"])]
      t1 == [cols |-> t0.cols, index |-> Take(t0.index, keep), rows |-> Take(coerced, keep)]
  IN  AddMissing(t1, DerivedCols)

load_csv(file) ==
  LET t0 == read_csv(file)
      coerced == [i \in 1..Len(t0.rows) |->
                    [t0.rows[i] EXCEPT !["Latitude"] = to_numeric(@),
                                       !["Longitude"] = to_numeric(@)]]
      keep == [i \in 1..Len(coerced) |->
                 ~isna(coerced[i]["Latitude"]) /\ ~isna(coerced[i]["Longitude"])]
      t1 == [cols |-> t0.cols, index |-> Take(t0.index, keep), rows |-> Take(coerced, keep)]
  IN  AddMissing(t1, DerivedCols)

\* ---------------------------------------------------------------- filters

\* Series.astype(str): Python's str() of each value ("nan" for a missing one)
astype_str(c) == c.s

\* sorted(df[col].dropna().astype(str).unique()), lines 32-34; only membership
\* in the option list is ever used, so it is kept as a set
Options(df, col) ==
  {astype_str(df.rows[i][col]) : i \in {j \in 1..Len(df.rows) : ~isna(df.rows[j][col])}}

wards(df)  == Options(df, "Ward")
wastes(df) == Options(df, "Waste Types")
actors(df) == Options(df, "Waste Management Actors")

\* Series.isin(values) after astype(str)
isin(c, values) == astype_str(c) \in values

\* df["_Alert"] == True, elementwise
EqTrue(c) == c = PyTrue

\* mask without the "if sel_...:" tests: an empty selection selects nothing
mask_always_isin(df, sw, sws, sa, ao) ==
  [i \in 1..Len(df.rows) |->
     /\ isin(df.rows[i]["Ward"], sw)
     /\ isin(df.rows[i]["Waste Types"], sws)
     /\ isin(df.rows[i]["Waste Management Actors"], sa)
     /\ (ao => EqTrue(df.rows[i]["_Alert"]))]

\* lines 41-45: a selection that is an empty list leaves the mask alone
mask(df, sw, sws, sa, ao) ==
  [i \in 1..Len(df.rows) |->
     /\ (sw # {}  => isin(df.rows[i]["Ward"], sw))
     /\ (sws # {} => isin(df.rows[i]["Waste Types"], sws))
     /\ (sa # {}  => isin(df.rows[i]["Waste Management Actors"], sa))
     /\ (ao => EqTrue(df.rows[i]["_Alert"]))]

\* df[mask].copy(), line 47
Filtered(df, sw, sws, sa, ao) ==
  LET m == mask(df, sw, sws, sa, ao)
  IN  [cols |-> df.cols, index |-> Take(df.index, m), rows |-> Take(df.rows, m)]

\* ------------------------------------------------------------------- KPIs

\* Series.nunique(): distinct non-missing values
nunique(t, col) ==
  Cardinality({t.rows[i][col] : i \in {j \in 1..Len(t.rows) : ~isna(t.rows[j][col])}})

\* int(dfv["_Alert"].sum()), line 54: missing values are skipped, True counts
\* 1 and False 0; text cannot be summed to a number and the script stops with
\* an exception
AlertSumFails(t) == \E i \in 1..Len(t.rows) : t.rows[i]["_Alert"].k = "str"

AlertSum(t) == Cardinality({i \in 1..Len(t.rows) : t.rows[i]["_Alert"] = PyTrue})

Kpis(t) ==
  [dumpsites |-> Len(t.rows), wards |-> nunique(t, "Ward"),
   wastes |-> nunique(t, "Waste Types"), alerts |-> AlertSum(t)]

\* -------------------------------------------------------------------- map

\* Python's bool(): NaN and every non-empty str are truthy
bool(c) ==
  CASE c.k = "bool" -> c.s = "True"
    [] c.k = "nan"  -> TRUE
    [] c.k = "str"  -> c.s # ""
    [] OTHER        -> c.s # 0

color_for(cat, alert) ==
  IF alert THEN "red"
  ELSE CASE cat = "Organic" -> "green"
         [] cat = "Plastic" -> "red"
         [] cat = "Paper"   -> "orange"
         [] cat = "Glass"   -> "blue"
         [] cat = "Metal"   -> "gray"
         [] cat = "E-waste" -> "black"
         [] cat = "Mixed"   -> "purple"
         [] cat = "Others"  -> "lightgray"
         [] cat = "Unknown" -> "beige"
         [] OTHER           -> "blue"

\* r.get(col, default): the default is used only when the row has no such
\* column; a missing value in an existing column comes back as NaN
get(r, col, default) == IF col \in DOMAIN r THEN r[col] ELSE default

WhiteSpace == {" ", "\t"}

RECURSIVE lstrip(_)
lstrip(cs) == IF cs # <<>> /\ Head(cs) \in WhiteSpace THEN lstrip(Tail(cs)) ELSE cs

RECURSIVE rstrip(_)
rstrip(cs) ==
  IF cs # <<>> /\ cs[Len(cs)] \in WhiteSpace THEN rstrip(SubSeq(cs, 1, Len(cs) - 1)) ELSE cs

\* str.lstrip() where strip() is meant
strip_left_only(cs) == lstrip(cs)

\* str.strip()
strip(cs) == rstrip(lstrip(cs))

\* line 72: the <img> is added when photo is a str that is not blank
img_html(photo) ==
  IF photo.k = "str" /\ strip(photo.s) # <<>> THEN <<photo.s>> ELSE <<>>

\* the em-dash placeholder of lines 76-80 (U+2014), written in ASCII
EmDash == "--"

\* lines 73-82: the text interpolated for each field of the popup template
popup(r) ==
  [dumpsite  |-> get(r, "Dumpsite Name", Str("Unnamed")).s,
   ward      |-> get(r, "Ward", Str("Unknown")).s,
   wastes    |-> get(r, "Waste Types", Str(EmDash)).s,
   actors    |-> get(r, "Waste Management Actors", Str(EmDash)).s,
   community |-> get(r, "Community Interventions", Str(EmDash)).s,
   reasons   |-> get(r, "Reasons for Dumping", Str(EmDash)).s,
   proposed  |-> get(r, "Proposed Interventions", Str(EmDash)).s,
   img       |-> img_html(get(r, "Photo URL", Str(<<>>)))]

MarkerIcon(r) ==
  [color |-> color_for(astype_str(get(r, "_WasteCategory", Str("Unknown"))),
                       bool(get(r, "_Alert", PyFalse))),
   icon  |-> IF bool(get(r, "_Alert", PyFalse)) THEN "exclamation-sign" ELSE "trash"]

\* lines 83-91
Marker(r) ==
  [location |-> <<r["Latitude"].s, r["Longitude"].s>>,
   popup    |-> popup(r),
   icon     |-> MarkerIcon(r)]

Markers(t) == [i \in 1..Len(t.rows) |-> Marker(t.rows[i])]

RECURSIVE SumCol(_, _)
SumCol(rows, col) == IF rows = <<>> THEN 0 ELSE Head(rows)[col].s + SumCol(Tail(rows), col)

\* The fixed centre of line 65-66, 0.5167 N 35.2833 E, in 1e-4 degree.
DefaultLat == 5167
DefaultLon == 352833

\* lines 65-66: a mean is kept as the exact fraction <<sum, count>>
center(t) ==
  [lat |-> IF Len(t.rows) # 0 THEN <<SumCol(t.rows, "Latitude"), Len(t.rows)>>
           ELSE <<DefaultLat, 1>>,
   lon |-> IF Len(t.rows) # 0 THEN <<SumCol(t.rows, "Longitude"), Len(t.rows)>>
           ELSE <<DefaultLon, 1>>]

\* ----------------------------------------------------------- aggregations

\* d["_cat"] = d["_WasteCategory"].replace("", "Unknown"), line 100
cat_of(r) == IF r["_WasteCategory"] = Str("") THEN Str("Unknown") ELSE r["_WasteCategory"]

\* d.groupby(["Ward","_cat"]).size().reset_index(name="count"), line 102:
\* rows with a missing key belong to no group
groupby_size(t) ==
  LET grouped == {i \in 1..Len(t.rows) : ~isna(t.rows[i]["Ward"]) /\ ~isna(cat_of(t.rows[i]))}
      key(i) == <<t.rows[i]["Ward"].s, cat_of(t.rows[i]).s>>
  IN  {[Ward |-> key(i)[1], cat |-> key(i)[2],
        count |-> Cardinality({j \in grouped : key(j) = key(i)})] : i \in grouped}

\* DataFrame.empty
empty(t) == Len(t.rows) = 0

\* lines 98-111
tab1(t) ==
  IF ~empty(t) THEN [kind |-> "chart", data |-> groupby_size(t)]
  ELSE [kind |-> "info", data |-> {}]

\* str.split(","): the pieces between the commas, empty pieces included
RECURSIVE split(_)
split(cs) ==
  IF \A i \in 1..Len(cs) : cs[i] # "," THEN <<cs>>
  ELSE LET at == CHOOSE i \in 1..Len(cs) : cs[i] = "," /\ \A j \in 1..(i - 1) : cs[j] # ","
       IN  <<SubSeq(cs, 1, at - 1)>> \o split(SubSeq(cs, at + 1, Len(cs)))

NA == <<"<", "N", "A", ">">>

\* [p.strip() for p in x.split(",") if p.strip() and p.strip() != "<NA>"]
RECURSIVE keep_tokens(_)
keep_tokens(pieces) ==
  IF pieces = <<>> THEN <<>>
  ELSE LET p == strip(Head(pieces))
       IN  (IF p # <<>> /\ p # NA THEN <<p>> ELSE <<>>) \o keep_tokens(Tail(pieces))

tokens_of(x) == keep_tokens(split(x))

\* lines 115-117 and 134-136: over dfv[col].dropna().astype(str)
RECURSIVE tokens(_, _)
tokens(rows, col) ==
  IF rows = <<>> THEN <<>>
  ELSE (IF isna(Head(rows)[col]) THEN <<>> ELSE tokens_of(astype_str(Head(rows)[col])))
       \o tokens(Tail(rows), col)

\* pd.Series(tokens).value_counts()
value_counts(toks) ==
  {[Reason |-> toks[i], Count |-> Cardinality({j \in 1..Len(toks) : toks[j] = toks[i]})]
     : i \in 1..Len(toks)}

\* " ".join(tokens)
RECURSIVE join(_)
join(toks) ==
  IF toks = <<>> THEN <<>>
  ELSE IF Len(toks) = 1 THEN toks[1] ELSE toks[1] \o <<" ">> \o join(Tail(toks))

\* lines 115-131
reasons_panel(t) ==
  LET reasons_tokens == tokens(t.rows, "_ReasonsNormalized")
  IN  IF reasons_tokens # <<>>
      THEN [kind |-> "chart", tokens |-> reasons_tokens, data |-> value_counts(reasons_tokens)]
      ELSE [kind |-> "info", tokens |-> reasons_tokens, data |-> {}]

\* lines 134-145
inter_panel(t) ==
  LET inter_tokens == tokens(t.rows, "_InterventionsNormalized")
  IN  IF inter_tokens # <<>>
      THEN [kind |-> "image", tokens |-> inter_tokens, data |-> join(inter_tokens)]
      ELSE [kind |-> "info", tokens |-> inter_tokens, data |-> <<>>]

\* ----------------------------------------------------------------- export

\* one field of a CSV line: a missing value is written as the empty field,
\* any other value as its text
csv_field(c, col) ==
  IF ~isna(c) THEN c.s ELSE IF col \in TextCols THEN <<>> ELSE ""

\* df_in.to_csv(index=False).encode("utf-8"), line 153: the header line, then
\* one line per row in order, each a field per column and no index field
to_csv(t) ==
  [header |-> t.cols,
   lines  |-> [i \in 1..Len(t.rows) |->
                 [j \in 1..Len(t.cols) |-> csv_field(t.rows[i][t.cols[j]], t.cols[j])]]]

\* a cache keyed by the shape of the DataFrame only
CacheKey_shape(t) == <<Len(t.rows), Len(t.cols)>>

\* st.cache_data hashes the DataFrame argument: its content with its index
CacheKey(t) == t

\* @st.cache_data to_csv_bytes, lines 151-153: the cache after the call
cache_after(cache, t) ==
  IF CacheKey(t) \in DOMAIN cache THEN cache ELSE cache @@ (CacheKey(t) :> to_csv(t))

\* what the call returns
to_csv_bytes(cache, t) == cache_after(cache, t)[CacheKey(t)]

\* ---------------------------------------------------------- state machine

VARIABLES
  csv,          \* the file GeoCycle_Dashboard_Ready_Final.csv: [cols, rows]
  load_cache,   \* st.cache_data of load_csv: path -> table
  csv_cache,    \* st.cache_data of to_csv_bytes: key -> bytes
  sel_wards, sel_wastes, sel_actors, alerts_only,   \* the sidebar widgets
  run,          \* "init" before the first run, then "done", or "error" when
                \* the last run stopped with an exception
  dfv,          \* the filtered view of the last run
  page          \* what the last run rendered

vars == <<csv, load_cache, csv_cache, sel_wards, sel_wastes, sel_actors, alerts_only,
          run, dfv, page>>

Path == "GeoCycle_Dashboard_Ready_Final.csv"

NoTable == [cols |-> <<>>, index |-> <<>>, rows |-> <<>>]

\* nothing rendered below the KPI row; cached tells whether the download
\* bytes were served from the cache of to_csv_bytes
NoPage ==
  [kpis |-> [dumpsites |-> 0, wards |-> 0, wastes |-> 0, alerts |-> 0],
   center |-> [lat |-> <<0, 1>>, lon |-> <<0, 1>>], markers |-> <<>>,
   tab1 |-> [kind |-> "none", data |-> {}],
   reasons |-> [kind |-> "none", tokens |-> <<>>, data |-> {}],
   inter |-> [kind |-> "none", tokens |-> <<>>, data |-> <<>>],
   table |-> <<>>,
   download |-> [header |-> <<>>, lines |-> <<>>],
   cached |-> FALSE]

\* the loaded table: load_csv(path) through its cache, line 24
df == IF Path \in DOMAIN load_cache THEN load_cache[Path] ELSE load_csv(csv)

\* One run of the script from line 24 to the end with the widgets at
\* (sw, sws, sa, ao).
Script(sw, sws, sa, ao) ==
  LET view == Filtered(df, sw, sws, sa, ao)
  IN  /\ load_cache' = (Path :> df)
      /\ sel_wards' = sw
      /\ sel_wastes' = sws
      /\ sel_actors' = sa
      /\ alerts_only' = ao
      /\ dfv' = view
      /\ UNCHANGED csv
      /\ IF AlertSumFails(view)
         THEN /\ run' = "error"
              /\ page' = [NoPage EXCEPT !.kpis = [Kpis(view) EXCEPT !.alerts = 0]]
              /\ UNCHANGED csv_cache
         ELSE /\ run' = "done"
              /\ csv_cache' = cache_after(csv_cache, view)
              /\ page' = [kpis     |-> Kpis(view),
                          center   |-> center(view),
                          markers  |-> Markers(view),
                          tab1     |-> tab1(view),
                          reasons  |-> reasons_panel(view),
                          inter    |-> inter_panel(view),
                          table    |-> view.rows,
                          download |-> to_csv_bytes(csv_cache, view),
                          cached   |-> CacheKey(view) \in DOMAIN csv_cache]

\* the first run: every multi-select at its default (all options), lines 36-39
FirstRun ==
  /\ run = "init"
  /\ Script(wards(df), wastes(df), actors(df), FALSE)

\* the user changes a widget; Streamlit reruns the script
SetWards(S) ==
  /\ run # "init"
  /\ S # sel_wards
  /\ Script(S, sel_wastes, sel_actors, alerts_only)

SetWastes(S) ==
  /\ run # "init"
  /\ S # sel_wastes
  /\ Script(sel_wards, S, sel_actors, alerts_only)

SetActors(S) ==
  /\ run # "init"
  /\ S # sel_actors
  /\ Script(sel_wards, sel_wastes, S, alerts_only)

ToggleAlerts ==
  /\ run # "init"
  /\ Script(sel_wards, sel_wastes, sel_actors, ~alerts_only)

Next ==
  \/ FirstRun
  \/ \E S \in SUBSET wards(df) : SetWards(S)
  \/ \E S \in SUBSET wastes(df) : SetWastes(S)
  \/ \E S \in SUBSET actors(df) : SetActors(S)
  \/ ToggleAlerts

\* ----------------------------------------------------------------- inputs

MaxRows == 2
MaxLen == 3

AllCols ==
  <<"Dumpsite Name", "Ward", "Latitude", "Longitude", "Waste Types",
    "Waste Management Actors", "Community Interventions", "Reasons for Dumping",
    "Proposed Interventions", "Photo URL", "_WasteCategory", "_Alert",
    "_ReasonsNormalized", "_InterventionsNormalized">>

\* the columns the popup reads with r.get
PopupCols ==
  {"Dumpsite Name", "Community Interventions", "Reasons for Dumping",
   "Proposed Interventions", "Photo URL"}

BaseRow ==
  [c \in Range(AllCols) |->
     CASE c = "Dumpsite Name"             -> Str("Site A")
       [] c = "Ward"                      -> Str("Kapsoya")
       [] c = "Latitude"                  -> Str(<<"5">>)
       [] c = "Longitude"                 -> Str(<<"3", "5">>)
       [] c = "Waste Types"               -> Str("Plastic")
       [] c = "Waste Management Actors"   -> Str("County")
       [] c = "Community Interventions"   -> Str("Cleanups")
       [] c = "Reasons for Dumping"       -> Str("No bins")
       [] c = "Proposed Interventions"    -> Str("More bins")
       [] c = "Photo URL"                 -> Str(<<"u">>)
       [] c = "_WasteCategory"            -> Str("Organic")
       [] c = "_Alert"                    -> PyFalse
       [] c = "_ReasonsNormalized"        -> Str(<<"a">>)
       [] c = "_InterventionsNormalized"  -> Str(<<"b">>)]

\* the file with the columns in absent left out
File(absent, rows) ==
  [cols |-> SelectSeq(AllCols, LAMBDA c : c \notin absent),
   rows |-> [i \in 1..Len(rows) |-> [c \in Range(AllCols) \ absent |-> rows[i][c]]]]

\* read_csv gives a column either bools (and NaN) or text (and NaN)
ColumnTyped(rows, col) ==
  ~ \E i, j \in 1..Len(rows) : rows[i][col].k = "bool" /\ rows[j][col].k = "str"

\* every table of at most MaxRows rows drawn from Rows
TablesOf(Rows) == UNION {[1..n -> Rows] : n \in 0..MaxRows}

\* the state before the first run, for a file drawn from Tables and Absents
InitWith(Tables, Absents) ==
  /\ \E absent \in Absents : \E rows \in Tables :
       /\ ColumnTyped(rows, "_Alert")
       /\ csv = File(absent, rows)
  /\ load_cache = <<>>
  /\ csv_cache = <<>>
  /\ sel_wards = {}
  /\ sel_wastes = {}
  /\ sel_actors = {}
  /\ alerts_only = FALSE
  /\ run = "init"
  /\ dfv = NoTable
  /\ page = NoPage

\* rows that differ in what the filters read: ward, waste types, actors, alert
FilterRows ==
  {[BaseRow EXCEPT !["Ward"] = d[1], !["Waste Types"] = d[2],
                   !["Waste Management Actors"] = d[3], !["_Alert"] = d[4]] :
     d \in {<<Str("Kapsoya"), Str("Plastic"), Str("County"), PyTrue>>,
            <<Str("Kapsoya"), Str("Plastic"), Str("County"), PyFalse>>,
            <<Str("Kapsoya"), Str("Plastic"), Str("County"), NaN>>,
            <<Str("Langas"), NaN, Str("County"), PyTrue>>,
            <<Str("Langas"), NaN, Str("County"), PyFalse>>,
            <<NaN, Str("Plastic"), NaN, PyFalse>>,
            <<NaN, Str("Plastic"), NaN, NaN>>}}

Init == InitWith(TablesOf(FilterRows), {{}, Range(DerivedCols)})

Spec == Init /\ [][Next]_vars

\* rows that differ in their coordinates as written in the file; the ward
\* differs with the latitude so that the filters select among them
LoadRows ==
  {[BaseRow EXCEPT !["Latitude"] = la, !["Longitude"] = lo,
                   !["Ward"] = IF la = Str(<<"5">>) THEN Str("Kapsoya") ELSE Str("Langas")] :
     la \in {Str(<<"5">>), Str(<<"-", "1", "2">>), Str(<<"5", "x">>), Str(<<"-">>), NaNText},
     lo \in {Str(<<"3", "5">>), Str(<<"y">>), NaNText}}

InitLoad == InitWith(TablesOf(LoadRows), {{}, Range(DerivedCols)})

SpecLoad == InitLoad /\ [][Next]_vars

\* rows that differ in what the marker icon reads
Categories ==
  {"Organic", "Plastic", "Paper", "Glass", "Metal", "E-waste", "Mixed", "Others", "Unknown"}

MapRows ==
  {[BaseRow EXCEPT !["_WasteCategory"] = cat, !["_Alert"] = al] :
     cat \in {Str(c) : c \in Categories} \cup {Str("Tyres"), NaN},
     al \in {PyTrue, PyFalse, NaN, Str("yes")}}

InitMap == InitWith(TablesOf(MapRows), {{}, {"_Alert"}, {"_WasteCategory"}})

SpecMap == InitMap /\ [][Next]_vars

\* rows that differ in what the popup reads: one field missing at a time, and
\* a photo URL that is text, blank text or missing
PopupFields ==
  {"Dumpsite Name", "Ward", "Waste Types", "Waste Management Actors",
   "Community Interventions", "Reasons for Dumping", "Proposed Interventions"}

PopupRows ==
  {[c \in Range(AllCols) |->
      IF c = f THEN NaN ELSE IF c = "Photo URL" THEN ph ELSE BaseRow[c]] :
     f \in PopupFields \cup {"none"},
     ph \in {Str(<<"u">>), Str(<<" ">>), NaNText}}

InitPopup == InitWith(TablesOf(PopupRows), {{}, PopupCols, {"Photo URL"}})

SpecPopup == InitPopup /\ [][Next]_vars

\* rows that differ in the text the token panels read.  The first row of a
\* file runs over every text of at most MaxLen characters; the later rows over
\* a few samples, so that a view concatenates several rows.
Alphabet == {"a", ",", " "}

Texts == UNION {[1..n -> Alphabet] : n \in 1..MaxLen}

Scenario ==
  <<"L", "a", "c", "k", " ", "o", "f", " ", "b", "i", "n", "s", ",", " ",
    "N", "e", "g", "l", "i", "g", "e", "n", "c", "e", ",">>

TokRow(x, al) ==
  [BaseRow EXCEPT !["_ReasonsNormalized"] = x, !["_InterventionsNormalized"] = x,
                  !["_Alert"] = al]

SampleRows ==
  {TokRow(NaNText, PyFalse), TokRow(Str(Scenario), PyTrue),
   TokRow(Str(<<"a", ",", "<", "N", "A", ">">>), PyFalse),
   TokRow(Str(<<" ", "<", "N", "A", ">", " ", ",", "<", "N", ",", "a">>), PyTrue)}

TokTables ==
  {<<>>} \cup
  {<<h>> \o t : h \in {TokRow(Str(x), PyFalse) : x \in Texts} \cup SampleRows,
                t \in UNION {[1..n -> SampleRows] : n \in 0..(MaxRows - 1)}}

InitTok == InitWith(TokTables, {{}, Range(DerivedCols)})

SpecTok == InitTok /\ [][Next]_vars

\* ------------------------------------------------------------- properties

\* the record's value for a dimension is one of the selected values
InSelection(c, sel) == ~isna(c) /\ c.s \in sel

\* the record's alert flag is true
AlertFlag(r) == r["_Alert"].k = "bool" /\ r["_Alert"].s = "True"

\* the inclusion rule of the filter engine under the current controls
Kept(r) ==
  /\ (sel_wards = {}  \/ InSelection(r["Ward"], sel_wards))
  /\ (sel_wastes = {} \/ InSelection(r["Waste Types"], sel_wastes))
  /\ (sel_actors = {} \/ InSelection(r["Waste Management Actors"], sel_actors))
  /\ (~alerts_only \/ AlertFlag(r))

\* record i of the loaded table is in the filtered view
InView(i) ==
  \E k \in 1..Len(dfv.rows) : dfv.index[k] = df.index[i] /\ dfv.rows[k] = df.rows[i]

\* C1: after every run, a record of the loaded table is in the filtered view
\* if and only if it passes the inclusion rule (each selection empty or
\* containing the record's value, alertsOnly off or the alert flag true), and
\* every record of the view is a record of the loaded table.
C1_FilterRule ==
  run # "init" =>
    /\ \A i \in 1..Len(df.rows) : InView(i) <=> Kept(df.rows[i])
    /\ \A k \in 1..Len(dfv.rows) :
         \E i \in 1..Len(df.rows) : df.index[i] = dfv.index[k] /\ df.rows[i] = dfv.rows[k]

\* a Kapsoya / Plastic / alert record of the loaded table is left out of a
\* non-empty view once only Langas is selected, alertsOnly being on
C1_Witness ==
  /\ run = "done"
  /\ sel_wards = {"Langas"}
  /\ alerts_only
  /\ Len(dfv.rows) > 0
  /\ \E i \in 1..Len(df.rows) :
       /\ df.rows[i]["Ward"] = Str("Kapsoya")
       /\ df.rows[i]["Waste Types"] = Str("Plastic")
       /\ AlertFlag(df.rows[i])
       /\ ~InView(i)

\* bytes is the CSV of table t: the header names t's columns, and there is one
\* line per row of t, in order, with one field per column and nothing else
IsCsvOf(bytes, t) ==
  /\ bytes.header = t.cols
  /\ Len(bytes.lines) = Len(t.rows)
  /\ \A i \in 1..Len(t.rows) :
       /\ Len(bytes.lines[i]) = Len(t.cols)
       /\ \A j \in 1..Len(t.cols) :
            LET c == t.rows[i][t.cols[j]]
            IN  IF isna(c) THEN Len(bytes.lines[i][j]) = 0 ELSE bytes.lines[i][j] = c.s

\* C5: after every completed run, served from the to_csv_bytes cache or not,
\* the download is the CSV of the current filtered view (header, one line
\* per record in view order, no index column), and the cached loaded table
\* is still what load_csv gives for the file.
C5_DownloadIsCurrentView ==
  /\ run = "done" =>
       /\ dfv = Filtered(df, sel_wards, sel_wastes, sel_actors, alerts_only)
       /\ page.table = dfv.rows
       /\ IsCsvOf(page.download, dfv)
  /\ run # "init" => load_cache[Path] = load_csv(csv)

\* a download served from the cache while other views are cached as well
C5_Witness ==
  /\ run = "done"
  /\ page.cached
  /\ Cardinality(DOMAIN csv_cache) >= 3
  /\ Len(dfv.rows) = 1
  /\ \E c \in Range(dfv.cols) : isna(dfv.rows[1][c])

\* the cell holds the text of a number
Parseable(c) == c.k = "str" /\ IsNumeral(c.s)

\* row i of the file has both coordinates parseable
GoodRow(i) == Parseable(csv.rows[i]["Latitude"]) /\ Parseable(csv.rows[i]["Longitude"])

Increasing(q) == \A i, j \in 1..Len(q) : i < j => q[i] < q[j]

\* C4: after every run the loaded table holds exactly the file's rows with
\* both coordinates parseable, in file order and with numeric coordinates; the
\* filtered view holds only such rows, and there is one marker at the row's
\* coordinates and one CSV line per row of the view.
C4_OnlyValidCoordinates ==
  run # "init" =>
    /\ Range(df.index) = {i - 1 : i \in {j \in 1..Len(csv.rows) : GoodRow(j)}}
    /\ Increasing(df.index)
    /\ Len(df.rows) = Len(df.index)
    /\ \A i \in 1..Len(df.rows) :
         /\ df.rows[i]["Latitude"] = Num(NumeralVal(csv.rows[df.index[i] + 1]["Latitude"].s))
         /\ df.rows[i]["Longitude"] = Num(NumeralVal(csv.rows[df.index[i] + 1]["Longitude"].s))
    /\ Range(dfv.index) \subseteq Range(df.index)
    /\ \A k \in 1..Len(dfv.rows) :
         dfv.rows[k]["Latitude"].k = "num" /\ dfv.rows[k]["Longitude"].k = "num"
    /\ run = "done" =>
         /\ Len(page.markers) = Len(dfv.rows)
         /\ Len(page.download.lines) = Len(dfv.rows)
         /\ \A k \in 1..Len(dfv.rows) :
              page.markers[k].location =
                <<NumeralVal(csv.rows[dfv.index[k] + 1]["Latitude"].s),
                  NumeralVal(csv.rows[dfv.index[k] + 1]["Longitude"].s)>>

\* a file whose first row has a bad coordinate and whose second row is loaded
\* and shown
C4_Witness ==
  /\ run = "done"
  /\ Len(csv.rows) = 2
  /\ ~GoodRow(1)
  /\ df.index = <<1>>
  /\ Len(page.markers) = 1
  /\ page.markers[1].location[1] < 0

\* the positions of the commas of x
Commas(x) == {i \in 1..Len(x) : x[i] = ","}

\* the k-th comma of x; position 0 before the first, Len(x)+1 after the last
Cut(x, k) ==
  IF k = 0 THEN 0
  ELSE IF k > Cardinality(Commas(x)) THEN Len(x) + 1
  ELSE CHOOSE p \in Commas(x) : Cardinality({q \in Commas(x) : q < p}) = k - 1

\* the pieces of x between its commas
Pieces(x) ==
  [k \in 1..(Cardinality(Commas(x)) + 1) |-> SubSeq(x, Cut(x, k - 1) + 1, Cut(x, k) - 1)]

\* piece p without its leading and trailing white space
Trimmed(p) ==
  LET ink == {i \in 1..Len(p) : p[i] \notin WhiteSpace}
  IN  IF ink = {} THEN <<>>
      ELSE SubSeq(p, CHOOSE i \in ink : \A j \in ink : i <= j,
                     CHOOSE i \in ink : \A j \in ink : j <= i)

\* the tokens of field x: its trimmed pieces, in order, but for the blank ones
\* and the marker <NA>
FieldTokens(x) ==
  LET trimmed == [k \in 1..Len(Pieces(x)) |-> Trimmed(Pieces(x)[k])]
  IN  SelectSeq(trimmed, LAMBDA p : p # <<>> /\ p # <<"<", "N", "A", ">">>)

\* the tokens of the records of the view from row i on, field col
RECURSIVE ViewTokens(_, _)
ViewTokens(i, col) ==
  IF i > Len(dfv.rows) THEN <<>>
  ELSE (IF isna(dfv.rows[i][col]) THEN <<>> ELSE FieldTokens(dfv.rows[i][col].s))
       \o ViewTokens(i + 1, col)

LackOfBins == <<"L", "a", "c", "k", " ", "o", "f", " ", "b", "i", "n", "s">>
Negligence == <<"N", "e", "g", "l", "i", "g", "e", "n", "c", "e">>

\* C9: after every completed run the reason tokens and the intervention
\* tokens are the concatenation, over the records of the view in order, of
\* each field's comma-separated pieces, trimmed, without the blank pieces and
\* the pieces "<NA>"; the field "Lack of bins, Negligence," alone gives
\* exactly "Lack of bins", "Negligence".
C9_TokenExtraction ==
  run = "done" =>
    /\ page.reasons.tokens = ViewTokens(1, "_ReasonsNormalized")
    /\ page.inter.tokens = ViewTokens(1, "_InterventionsNormalized")
    /\ (Len(dfv.rows) = 1 /\ dfv.rows[1]["_ReasonsNormalized"] = Str(Scenario))
         => page.reasons.tokens = <<LackOfBins, Negligence>>

\* a view of two records, the first with the scenario's field, whose tokens
\* follow each other
C9_Witness ==
  /\ run = "done"
  /\ Len(dfv.rows) = 2
  /\ dfv.rows[1]["_ReasonsNormalized"] = Str(Scenario)
  /\ page.reasons.tokens = <<LackOfBins, Negligence, <<"a">>>>
  /\ page.inter.kind = "image"

\* C2: with every control at its default (each multi-select holding all its
\* options, alertsOnly off) the filtered view is the whole loaded table and
\* the exported CSV has one line per record of the loaded table.
C2_DefaultsAreIdentity ==
  (/\ run = "done"
   /\ sel_wards = wards(df) /\ sel_wastes = wastes(df) /\ sel_actors = actors(df)
   /\ ~alerts_only)
  => /\ dfv.rows = df.rows
     /\ Len(page.download.lines) = Len(df.rows)

\* C3: for each dimension, under the current setting of the other controls,
\* the empty selection gives the same view as the selection of every value
\* of that dimension.
C3_EmptyIsAll ==
  run # "init" =>
    /\ Filtered(df, {}, sel_wastes, sel_actors, alerts_only)
         = Filtered(df, wards(df), sel_wastes, sel_actors, alerts_only)
    /\ Filtered(df, sel_wards, {}, sel_actors, alerts_only)
         = Filtered(df, sel_wards, wastes(df), sel_actors, alerts_only)
    /\ Filtered(df, sel_wards, sel_wastes, {}, alerts_only)
         = Filtered(df, sel_wards, sel_wastes, actors(df), alerts_only)

\* the fixed category -> colour table of the map renderer
ColorTable ==
  ("Organic" :> "green") @@ ("Plastic" :> "red") @@ ("Paper" :> "orange") @@
  ("Glass" :> "blue") @@ ("Metal" :> "gray") @@ ("E-waste" :> "black") @@
  ("Mixed" :> "purple") @@ ("Others" :> "lightgray") @@ ("Unknown" :> "beige")

CategoryColor(c) ==
  IF ~isna(c) /\ c.s \in DOMAIN ColorTable THEN ColorTable[c.s] ELSE "blue"

\* C6: after every completed run there is one marker per record of the view;
\* its colour is red when the record's alert flag is set and the colour of
\* its category otherwise, and its glyph is the exclamation sign exactly
\* when the alert flag is set, the trash can otherwise.
C6_MarkerStyle ==
  run = "done" =>
    /\ Len(page.markers) = Len(dfv.rows)
    /\ \A i \in 1..Len(dfv.rows) :
         LET r == dfv.rows[i]
             m == page.markers[i].icon
         IN  /\ m.color = IF AlertFlag(r) THEN "red" ELSE CategoryColor(r["_WasteCategory"])
             /\ m.icon = IF AlertFlag(r) THEN "exclamation-sign" ELSE "trash"

\* the value of field col is missing in record r
Missing(r, col) == col \notin DOMAIN r \/ isna(r[col])

Shown(r, col, placeholder) == IF Missing(r, col) THEN placeholder ELSE r[col].s

\* C7: after every completed run each record of the view has its popup, in
\* which every field whose value is missing shows its placeholder and every
\* other field its value; the thumbnail is there exactly when the photo URL
\* is text that is not blank.
C7_PopupPlaceholders ==
  run = "done" =>
    /\ Len(page.markers) = Len(dfv.rows)
    /\ \A i \in 1..Len(dfv.rows) :
         LET r == dfv.rows[i]
             p == page.markers[i].popup
         IN  /\ p.dumpsite  = Shown(r, "Dumpsite Name", "Unnamed")
             /\ p.ward      = Shown(r, "Ward", "Unknown")
             /\ p.wastes    = Shown(r, "Waste Types", EmDash)
             /\ p.actors    = Shown(r, "Waste Management Actors", EmDash)
             /\ p.community = Shown(r, "Community Interventions", EmDash)
             /\ p.reasons   = Shown(r, "Reasons for Dumping", EmDash)
             /\ p.proposed  = Shown(r, "Proposed Interventions", EmDash)
             /\ (p.img # <<>>) <=>
                  (/\ ~Missing(r, "Photo URL")
                   /\ \E j \in 1..Len(r["Photo URL"].s) : r["Photo URL"].s[j] \notin WhiteSpace)

\* the view has no group of (ward, normalized category)
NoGroup == \A i \in 1..Len(dfv.rows) : isna(dfv.rows[i]["Ward"]) \/ isna(dfv.rows[i]["_WasteCategory"])

\* C8: after every completed run each aggregation panel shows its placeholder
\* when its aggregation is empty (no group, no reason token, no intervention
\* token), and an empty view shows the three placeholders and centres the map
\* at the default coordinate.
C8_EmptyPanels ==
  run = "done" =>
    /\ NoGroup => page.tab1.kind = "info"
    /\ ViewTokens(1, "_ReasonsNormalized") = <<>> => page.reasons.kind = "info"
    /\ ViewTokens(1, "_InterventionsNormalized") = <<>> => page.inter.kind = "info"
    /\ Len(dfv.rows) = 0 =>
         /\ page.tab1.kind = "info" /\ page.reasons.kind = "info" /\ page.inter.kind = "info"
         /\ page.center = [lat |-> <<DefaultLat, 1>>, lon |-> <<DefaultLon, 1>>]

\* the records of the view that the alertsOnly filter retains
AlertRetained == Filtered(dfv, {}, {}, {}, TRUE)

\* C10: after every completed run a record of the view is retained by the
\* alertsOnly filter exactly when its marker is alert-styled (red, exclamation
\* sign), and the alert counter is the number of records of the view that the
\* alertsOnly filter retains.
C10_AlertUsesAgree ==
  run = "done" =>
    /\ \A i \in 1..Len(dfv.rows) :
         (dfv.index[i] \in Range(AlertRetained.index))
           <=> (/\ page.markers[i].icon.color = "red"
                /\ page.markers[i].icon.icon = "exclamation-sign")
    /\ page.kpis.alerts = Len(AlertRetained.rows)

====
